---- MODULE Spec2Model ----
(***************************************************************************)
(* FixGoblin: the bounded repair loop (autonomous_repair, universal_repair), *)
(* the patch evaluator/selector (select_best_patch), the two sandboxes      *)
(* (compile_and_run, run_in_sandbox) and the analyzer's infinite-loop check. *)
(*                                                                         *)
(* Source texts are abstract values 0..NumSources-1.  The sandbox, the     *)
(* validators and the candidate generator are the environment: every call  *)
(* returns any value of a small set.  A stderr text is a sequence of line  *)
(* classes: "Traceback" (contains an error keyword, names no error type),  *)
(* "NameError" / "SyntaxError" (a final 'Type: message' line), "Error: ..." *)
(* (the sandbox's own one-line report of a timeout or a spawn failure).    *)
(***************************************************************************)
EXTENDS Integers, Sequences, FiniteSets, TLC

\* ---------------------------------------------------------------- bounds
MaxBudget    == 2     \* max_iterations ranges over 0..MaxBudget
NumSources   == 2     \* distinct source texts
MaxCands     == 2     \* candidates returned by one generator call
MaxDiffLines == 10    \* largest diff a candidate carries
MaxCalls     == 2     \* sandbox invocations made one after the other

None == "None"

\* source texts; Source(0) is the text the target file starts with
Source(i) == "src" \o ToString(i)
Sources   == {Source(i) : i \in 0 .. (NumSources - 1)}
PatchIds  == {"patch_" \o ToString(i) : i \in 0 .. (MaxCands - 1)}
DiffSizes == {1, MaxDiffLines}

\* A unified diff with n changed lines: two file headers, a hunk header, then
\* alternating removed and added lines.
UnifiedDiff(n) ==
  <<"---", "+++", "@@">> \o [i \in 1..n |-> IF i % 2 = 1 THEN "-" ELSE "+"]

Candidates == [id : PatchIds, patched_code : Sources, diff : {UnifiedDiff(n) : n \in DiffSizes}]

RECURSIVE SeqsUpTo(_, _)
SeqsUpTo(S, n) ==
  IF n = 0 THEN {<< >>}
  ELSE LET shorter == SeqsUpTo(S, n - 1)
       IN  shorter \cup {Append(s, x) : s \in {t \in shorter : Len(t) = n - 1}, x \in S}

CandLists == SeqsUpTo(Candidates, MaxCands)

\* What the generators return to the repair loops: ids numbered by position.
GeneratedLists == {ps \in CandLists : \A i \in 1..Len(ps) : ps[i].id = "patch_" \o ToString(i - 1)}

\* What one sandbox run can return (run_in_sandbox's dictionary).
RunClean    == [returncode |-> 0, stdout |-> TRUE,  stderr |-> << >>]
RunTrace    == [returncode |-> 1, stdout |-> FALSE, stderr |-> <<"Traceback", "NameError">>]
RunSyntax   == [returncode |-> 1, stdout |-> TRUE,  stderr |-> <<"SyntaxError">>]
RunSilent   == [returncode |-> 1, stdout |-> FALSE, stderr |-> << >>]
\* the run exceeded the timeout: exit code 124 and one line of stderr
RunTimeout  == [returncode |-> 124, stdout |-> FALSE,
                stderr |-> <<"Error: Execution exceeded timeout">>]
\* the interpreter or compiler could not be started: the exception's text
RunSpawnFail == [returncode |-> 1, stdout |-> FALSE,
                 stderr |-> <<"Error: No such file or directory">>]
SandboxOutputs == {RunClean, RunTrace, RunSyntax, RunSilent, RunTimeout}
NoResult    == [returncode |-> 0 - 1, stdout |-> FALSE, stderr |-> << >>]
NoPatch     == [id |-> None, patched_code |-> None, diff |-> << >>, score |-> 0, success |-> FALSE]

\* ------------------------------------------------------ patch_optimizer.py
ErrorKeywordLines == {"Traceback", "NameError", "SyntaxError",
                      "Error: Execution exceeded timeout",
                      "Error: No such file or directory"}
TypedLines        == {"NameError", "SyntaxError"}

CountErrorLines(stderr) ==
  Cardinality({i \in 1..Len(stderr) : stderr[i] \in ErrorKeywordLines})

\* the last line that names an error type (the lines are searched in reverse)
ExtractErrorType(stderr) ==
  LET typed == {i \in 1..Len(stderr) : stderr[i] \in TypedLines}
  IN  IF typed = {} THEN None
      ELSE stderr[CHOOSE i \in typed : \A j \in typed : j <= i]

\* startswith('+') and not startswith('+++'), likewise for '-'
CountDiffLines(diff) ==
  Cardinality({i \in 1..Len(diff) : diff[i] \in {"+", "-"}})

ErrorCountScore(baseline_errors, patched_errors) ==
  IF patched_errors < baseline_errors
    THEN [bonus |-> (baseline_errors - patched_errors) * 20, penalty |-> 0]
  ELSE IF patched_errors > baseline_errors
    THEN [bonus |-> 0, penalty |-> 0 - (patched_errors - baseline_errors) * 50]
  ELSE [bonus |-> 0, penalty |-> 0]

ErrorTypePenalty(baseline_type, patched_type) ==
  IF patched_type # None /\ baseline_type # None /\ patched_type # baseline_type
    THEN (IF patched_type \in {"UnboundLocalError", "SyntaxError"} THEN 0 - 100 ELSE 0 - 50)
    ELSE 0

DiffSizeScore(lines_changed) ==
  IF lines_changed > 3 THEN 0 - (lines_changed - 3) * 10
  ELSE IF lines_changed <= 2 THEN 10
  ELSE 0

EvaluatePatchTimeoutPasses(patch, baseline_result, patched_result) ==
  LET no_errors_bonus == IF patched_result.returncode \in {0, 124} THEN 100 ELSE 0
      priority_bonus  == IF patch.id = "patch_0" THEN 30 ELSE 0
      counts          == ErrorCountScore(CountErrorLines(baseline_result.stderr),
                                         CountErrorLines(patched_result.stderr))
      type_penalty    == ErrorTypePenalty(ExtractErrorType(baseline_result.stderr),
                                          ExtractErrorType(patched_result.stderr))
      diff_score      == DiffSizeScore(CountDiffLines(patch.diff))
      output_bonus    == IF patched_result.stdout /\ ~baseline_result.stdout THEN 15 ELSE 0
  IN  [returncode  |-> patched_result.returncode,
       success     |-> patched_result.returncode \in {0, 124},
       error_reduction_bonus |-> counts.bonus,
       new_errors_penalty    |-> counts.penalty + type_penalty,
       total_score |-> no_errors_bonus + priority_bonus + counts.bonus
                       + (counts.penalty + type_penalty) + diff_score + output_bonus]

EvaluatePatch(patch, baseline_result, patched_result) ==
  LET no_errors_bonus == IF patched_result.returncode = 0 THEN 100 ELSE 0
      priority_bonus  == IF patch.id = "patch_0" THEN 30 ELSE 0
      counts          == ErrorCountScore(CountErrorLines(baseline_result.stderr),
                                         CountErrorLines(patched_result.stderr))
      type_penalty    == ErrorTypePenalty(ExtractErrorType(baseline_result.stderr),
                                          ExtractErrorType(patched_result.stderr))
      diff_score      == DiffSizeScore(CountDiffLines(patch.diff))
      output_bonus    == IF patched_result.stdout /\ ~baseline_result.stdout THEN 15 ELSE 0
  IN  [returncode  |-> patched_result.returncode,
       success     |-> patched_result.returncode = 0,
       error_reduction_bonus |-> counts.bonus,
       new_errors_penalty    |-> counts.penalty + type_penalty,
       total_score |-> no_errors_bonus + priority_bonus + counts.bonus
                       + (counts.penalty + type_penalty) + diff_score + output_bonus]

ScoredPatch(patch, info) ==
  [id |-> patch.id, patched_code |-> patch.patched_code, diff |-> patch.diff,
   score |-> info.total_score, success |-> info.success]

\* list.sort(key=score, reverse=True) is stable: an element goes after every
\* element already placed whose score is at least its own.
InsertLastWins(sorted, x) ==
  LET before == {i \in 1..Len(sorted) : sorted[i].score > x.score}
      k      == Cardinality(before)
  IN  SubSeq(sorted, 1, k) \o <<x>> \o SubSeq(sorted, k + 1, Len(sorted))

InsertByScore(sorted, x) ==
  LET before == {i \in 1..Len(sorted) : sorted[i].score >= x.score}
      k      == Cardinality(before)
  IN  SubSeq(sorted, 1, k) \o <<x>> \o SubSeq(sorted, k + 1, Len(sorted))

RECURSIVE SortByScore(_)
SortByScore(scored) ==
  IF scored = << >> THEN << >>
  ELSE InsertByScore(SortByScore(SubSeq(scored, 1, Len(scored) - 1)), scored[Len(scored)])

\* scored_patches, in the order of patch_candidates
RECURSIVE ScoreAll(_, _, _)
ScoreAll(patch_candidates, baseline_result, patched_results) ==
  IF patch_candidates = << >> THEN << >>
  ELSE LET n == Len(patch_candidates)
       IN  Append(ScoreAll(SubSeq(patch_candidates, 1, n - 1), baseline_result,
                           SubSeq(patched_results, 1, n - 1)),
                  ScoredPatch(patch_candidates[n],
                              EvaluatePatch(patch_candidates[n], baseline_result,
                                            patched_results[n])))

SelectBestPatch(patch_candidates, baseline_result, patched_results) ==
  IF patch_candidates = << >> THEN NoPatch
  ELSE SortByScore(ScoreAll(patch_candidates, baseline_result, patched_results))[1]

\* ------------------------------------------------------------------ state
VARIABLES
  entry,            \* "autonomous" (autonomous_repair) or "universal" (universal_repair)
  max_iterations,   \* the budget argument
  pc,               \* position of the running function
  current_iteration,\* current_iteration / the for-loop's iteration
  file,             \* content of the target file on disk
  backup,           \* content of <target>.backup, None while it does not exist
  initial_code,     \* initial_code / original_code
  current_code,     \* current_code buffer
  sandbox_result,   \* result of the iteration's run of the current source
  findings,         \* validators' results on an exit-0 run
  error_data,       \* the diagnosis
  patches,          \* candidates returned by the generator
  best_patch,       \* what select returned
  iteration_logs,   \* iteration_logs / result['iterations']
  outcome,          \* the returned dictionary
  executions,       \* runs of the current source by the repair loop (history)
  invoked,          \* components called in the current iteration (history)
  fileops,          \* writes to the target file and to its backup, in order (history)
  baseline_result,  \* select_best_patch's inputs when it is exercised alone
  patched_results,
  box_call,         \* the sandbox invocation in progress or last made: api, language, step outcomes
  box_result,       \* what that invocation returned
  cwd_files,        \* files present in the calling process's working directory
  seen,             \* files of earlier invocations the last program found in its working directory
  box_calls,        \* sandbox invocations made so far
  loop_shape,       \* the while loop given to the analyzer: names in the test, names assigned, break
  hash_order,       \* the process's iteration order of a set of names (string hashing is seeded per process)
  logical_analysis_results, \* analyze_logic's report, returned as the outcome's logical_analysis
  config,           \* the dictionary parse_dsl_config returned: allow, deny, optimize_efficiency, max_patches
  rule_name,        \* the rule given to is_rule_allowed
  rule_allowed,     \* what is_rule_allowed returned
  evaluated,        \* the candidates repair_with_dsl_config's run scored in the sandbox
  signals,          \* the failed run given to parse_error: traceback frames and the last line's error type
  error_info,       \* what parse_error returned
  tree,             \* the syntax tree given to analyze_logic's unreachable-code passes
  for_loop,         \* the for loop given to the analyzer: range arguments, subscripts by the loop variable
  test_cases        \* the test results given to analyze_logic

ctl_vars == <<entry, max_iterations, pc, current_iteration, file, backup, initial_code,
              current_code, sandbox_result, findings, error_data, patches, best_patch,
              iteration_logs, outcome, executions, invoked, fileops,
              baseline_result, patched_results>>

box_vars == <<box_call, box_result, cwd_files, seen, box_calls>>

an_vars == <<loop_shape, hash_order, logical_analysis_results>>

dsl_vars == <<config, rule_name, rule_allowed, evaluated>>

parse_vars == <<signals, error_info>>

flow_vars == <<tree, for_loop, test_cases>>

lib_vars == <<dsl_vars, parse_vars, flow_vars>>

vars == <<ctl_vars, box_vars, an_vars, lib_vars>>

\* no sandbox invocation made yet
NoCall == [api |-> None, language |-> None, probe |-> None, first |-> None,
           run |-> None, text |-> None, writes |-> FALSE]

NoBoxResult == [success |-> FALSE, error_type |-> None, returncode |-> 0 - 1]

BoxIdle ==
  /\ box_call = NoCall
  /\ box_result = NoBoxResult
  /\ cwd_files = {}
  /\ seen = {}
  /\ box_calls = 0

NoLoop == [test |-> None, in_condition |-> {}, modified |-> {}, has_break |-> FALSE]

AnalyzerIdle ==
  /\ loop_shape = NoLoop
  /\ hash_order = << >>
  /\ logical_analysis_results = << >>

NoConfig == [allow |-> {}, deny |-> {}, optimize_efficiency |-> FALSE, max_patches |-> 0]

NoSignals == [frames |-> << >>, error_type |-> None]

NoErrorInfo == [error_type |-> None, line_number |-> None]

NoTree == [top |-> None, body |-> << >>]

NoFor == [range_args |-> 0, start |-> 0, subscripts |-> 0, lineno |-> 0]

LibIdle ==
  /\ config = NoConfig
  /\ rule_name = None
  /\ rule_allowed = FALSE
  /\ evaluated = << >>
  /\ signals = NoSignals
  /\ error_info = NoErrorInfo
  /\ tree = NoTree
  /\ for_loop = NoFor
  /\ test_cases = << >>

NoDiagnosis == [error_type |-> None]

\* logical_errors: analyze_logic reported at least one logical error;
\* logic_ok: validate_logic's is_logically_correct; semantic_issues and
\* semantic_fix: detect_semantic_errors and the first suggested fix
NoFindings ==
  [logical_errors |-> FALSE, semantic_issues |-> FALSE, semantic_fix |-> None,
   logic_ok |-> TRUE]

ValidatorFindings ==
  {f \in [logical_errors : BOOLEAN, semantic_issues : BOOLEAN,
          semantic_fix : Sources \cup {None}, logic_ok : BOOLEAN] :
      f.semantic_fix # None => f.semantic_issues}

Pending(e) ==
  [returned |-> FALSE, success |-> FALSE, total_iterations |-> 0,
   final_status |-> IF e = "universal" THEN "FAILED" ELSE None,
   reason |-> IF e = "universal" THEN "No errors found or max iterations reached" ELSE None,
   final_code |-> None]

Init ==
  /\ entry \in {"autonomous", "universal"}
  /\ max_iterations \in 0..MaxBudget
  /\ pc = IF entry = "autonomous" THEN "loop" ELSE "ucheck"
  /\ current_iteration = 0
  /\ file = Source(0)
  /\ backup = None
  /\ initial_code = Source(0)
  /\ current_code = Source(0)
  /\ sandbox_result = NoResult
  /\ findings = NoFindings
  /\ error_data = NoDiagnosis
  /\ patches = << >>
  /\ best_patch = NoPatch
  /\ iteration_logs = << >>
  /\ outcome = Pending(entry)
  /\ executions = 0
  /\ invoked = {}
  /\ fileops = << >>
  /\ baseline_result = NoResult
  /\ patched_results = << >>
  /\ BoxIdle
  /\ AnalyzerIdle
  /\ LibIdle

\* ------------------------------------------------- core/error_parser.py
\* No diagnosis for an exit-0 run or an empty stderr; a SyntaxError anywhere in
\* stderr wins; otherwise the last line gives the type (the line itself when
\* it is not of the form 'Type: message').
ParseError(result) ==
  IF result.returncode = 0 \/ result.stderr = << >> THEN NoDiagnosis
  ELSE IF \E i \in 1..Len(result.stderr) : result.stderr[i] = "SyntaxError"
    THEN [error_type |-> "SyntaxError"]
  ELSE [error_type |-> result.stderr[Len(result.stderr)]]

\* -------------------------------------------- core/autonomous_repair.py
LogZeroBased(iteration, status, returncode) ==
  [iteration |-> iteration - 1, status |-> status, returncode |-> returncode]

Log(iteration, status, returncode) ==
  [iteration |-> iteration, status |-> status, returncode |-> returncode]

CreateSuccessResultOffByOne(final_code, total) ==
  [returned |-> TRUE, success |-> TRUE, total_iterations |-> total + 1,
   final_status |-> "success",
   reason |-> "Code successfully repaired and executes without errors",
   final_code |-> final_code]

CreateSuccessResult(final_code, total) ==
  [returned |-> TRUE, success |-> TRUE, total_iterations |-> total,
   final_status |-> "success",
   reason |-> "Code successfully repaired and executes without errors",
   final_code |-> final_code]

CreateFailureResult(reason, final_code, iterations) ==
  [returned |-> TRUE, success |-> FALSE, total_iterations |-> Len(iterations),
   final_status |-> "failed", reason |-> reason, final_code |-> final_code]

MaxIterationsResult(final_code, total) ==
  [returned |-> TRUE, success |-> FALSE, total_iterations |-> total,
   final_status |-> "max_iterations_reached",
   reason |-> "Reached maximum iterations without fixing all errors",
   final_code |-> final_code]

LoopConditionInclusive(iteration, budget) == iteration <= budget

LoopCondition(iteration, budget) == iteration < budget

Logical == error_data.error_type = "LogicalError"

\* one write: op "write" (the target file) or "backup" (<target>.backup), the
\* code path that wrote, the content written, and the target file's content
\* at that moment
FileOp(op, by, content, target) ==
  [op |-> op, by |-> by, content |-> content, target |-> target,
   iteration |-> current_iteration]

\* the iteration's locals are dead once the loop continues
ClearLocals ==
  /\ sandbox_result' = NoResult
  /\ findings' = NoFindings
  /\ error_data' = NoDiagnosis
  /\ patches' = << >>
  /\ best_patch' = NoPatch

\* the exit-0 branch's tail: log 'fixed' and return success
Succeed ==
  /\ iteration_logs' = Append(iteration_logs, Log(current_iteration, "fixed", 0))
  /\ outcome' = CreateSuccessResult(file, current_iteration)
  /\ pc' = "done"

\* a 'failed' record, then _create_failure_result
Fail(reason, final_code) ==
  LET logs == Append(iteration_logs,
                     Log(current_iteration, "failed", sandbox_result.returncode))
  IN  /\ iteration_logs' = logs
      /\ outcome' = CreateFailureResult(reason, final_code, logs)
      /\ pc' = "done"

\* while current_iteration < max_iterations: current_iteration += 1 ... else
\* the max-iterations result
Loop ==
  /\ pc = "loop"
  /\ entry = "autonomous"
  /\ IF LoopCondition(current_iteration, max_iterations)
       THEN /\ current_iteration' = current_iteration + 1
            /\ invoked' = {}
            /\ pc' = "run"
            /\ UNCHANGED outcome
       ELSE /\ outcome' = MaxIterationsResult(file, current_iteration)
            /\ pc' = "done"
            /\ UNCHANGED <<current_iteration, invoked>>
  /\ UNCHANGED <<entry, max_iterations, file, backup, initial_code, current_code,
                 sandbox_result, findings, error_data, patches, best_patch,
                 iteration_logs, executions, fileops, baseline_result, patched_results>>
  /\ UNCHANGED <<box_vars, an_vars, lib_vars>>

\* STEP 1: run the file in the sandbox, then read it into current_code
RunSandbox ==
  /\ pc = "run"
  /\ \E r \in SandboxOutputs \cup {RunSpawnFail} :
       /\ sandbox_result' = r
       /\ pc' = IF r.returncode = 0 THEN "validate" ELSE "parse"
  /\ executions' = executions + 1
  /\ invoked' = invoked \cup {"sandbox"}
  /\ current_code' = file
  /\ UNCHANGED <<entry, max_iterations, current_iteration, file, backup, initial_code,
                 findings, error_data, patches, best_patch, iteration_logs, outcome,
                 fileops, baseline_result, patched_results>>
  /\ UNCHANGED <<box_vars, an_vars, lib_vars>>

\* exit 0: analyze_logic (its result is printed and kept for the outcome),
\* validate_logic, detect_semantic_errors, suggest_fixes_for_semantic_errors
Validators ==
  /\ pc = "validate"
  /\ findings' \in ValidatorFindings
  /\ invoked' = invoked \cup {"validators"}
  /\ pc' = "decide"
  /\ UNCHANGED <<entry, max_iterations, current_iteration, file, backup, initial_code,
                 current_code, sandbox_result, error_data, patches, best_patch,
                 iteration_logs, outcome, executions, fileops, baseline_result,
                 patched_results>>
  /\ UNCHANGED <<box_vars, an_vars, lib_vars>>

\* semantic_fixes[0] is written to the file, the iteration is logged, continue
ApplySemanticFix ==
  /\ pc = "decide"
  /\ findings.semantic_issues
  /\ findings.semantic_fix # None
  /\ file' = findings.semantic_fix
  /\ fileops' = Append(fileops, FileOp("write", "semantic_fix", findings.semantic_fix, file))
  /\ iteration_logs' = Append(iteration_logs,
        Log(current_iteration, "APPLIED_SEMANTIC_FIX", 0))
  /\ pc' = "loop"
  /\ ClearLocals
  /\ UNCHANGED <<entry, max_iterations, current_iteration, backup, initial_code,
                 current_code, outcome, executions, invoked, baseline_result,
                 patched_results>>
  /\ UNCHANGED <<box_vars, an_vars, lib_vars>>

\* no semantic fix applied and validate_logic found issues: format_logical_error
LogicalDiagnosis ==
  /\ pc = "decide"
  /\ findings.semantic_fix = None
  /\ ~findings.logic_ok
  /\ error_data' = [error_type |-> "LogicalError"]
  /\ pc' = "generate"
  /\ UNCHANGED <<entry, max_iterations, current_iteration, file, backup, initial_code,
                 current_code, sandbox_result, findings, patches, best_patch,
                 iteration_logs, outcome, executions, invoked, fileops,
                 baseline_result, patched_results>>
  /\ UNCHANGED <<box_vars, an_vars, lib_vars>>

\* no semantic fix applied and the logic validation passed
ReturnSuccess ==
  /\ pc = "decide"
  /\ findings.semantic_fix = None
  /\ findings.logic_ok
  /\ Succeed
  /\ UNCHANGED <<entry, max_iterations, current_iteration, file, backup, initial_code,
                 current_code, sandbox_result, findings, error_data, patches, best_patch,
                 executions, invoked, fileops, baseline_result, patched_results>>
  /\ UNCHANGED <<box_vars, an_vars, lib_vars>>

DiagnosisMissingNever(diagnosis) == FALSE

DiagnosisMissing(diagnosis) == diagnosis.error_type = None

\* STEP 2: parse_error; no error type ends the run
Parse ==
  /\ pc = "parse"
  /\ error_data' = ParseError(sandbox_result)
  /\ invoked' = invoked \cup {"parser"}
  /\ IF DiagnosisMissing(ParseError(sandbox_result))
       THEN Fail("Could not parse error", file)
       ELSE /\ pc' = "generate"
            /\ UNCHANGED <<iteration_logs, outcome>>
  /\ UNCHANGED <<entry, max_iterations, current_iteration, file, backup, initial_code,
                 current_code, sandbox_result, findings, patches, best_patch,
                 executions, fileops, baseline_result, patched_results>>
  /\ UNCHANGED <<box_vars, an_vars, lib_vars>>

\* generate_patch_candidates dispatches on the error type and returns [] for
\* a type it has no generator for (and for a diagnosis without line number)
GeneratorHandlesAll(error_type) == TRUE

GeneratorHandles(error_type) ==
  error_type \in {"IndexError", "SyntaxError", "NameError", "ZeroDivisionError",
                  "TypeError", "AttributeError", "UnboundLocalError", "LogicalError"}

GeneratePatchCandidates(diagnosis) ==
  IF GeneratorHandles(diagnosis.error_type) THEN GeneratedLists ELSE {<< >>}

\* STEP 3: generate_patch_candidates; an empty list ends the run (after an
\* exit-0 run it falls through to the success return)
Generate ==
  /\ pc = "generate"
  /\ \E ps \in GeneratePatchCandidates(error_data) :
       /\ patches' = ps
       /\ IF ps = << >>
            THEN IF Logical THEN Succeed
                 ELSE Fail("No patches could be generated", current_code)
            ELSE /\ pc' = "select"
                 /\ UNCHANGED <<iteration_logs, outcome>>
  /\ invoked' = invoked \cup {"generator"}
  /\ UNCHANGED <<entry, max_iterations, current_iteration, file, backup, initial_code,
                 current_code, sandbox_result, findings, error_data, best_patch,
                 executions, fileops, baseline_result, patched_results>>
  /\ UNCHANGED <<box_vars, an_vars, lib_vars>>

\* STEP 4: select_best_patch runs the current code and every candidate; the
\* candidate list is not read again in the iteration
Select ==
  /\ pc = "select"
  /\ \E b \in SandboxOutputs, rs \in [1..Len(patches) -> SandboxOutputs] :
       LET best == SelectBestPatch(patches, b, rs)
       IN  /\ best_patch' = best
           /\ IF best = NoPatch
                THEN IF Logical THEN Succeed
                     ELSE Fail("No suitable patch found", current_code)
                ELSE /\ pc' = "apply"
                     /\ UNCHANGED <<iteration_logs, outcome>>
  /\ patches' = << >>
  /\ invoked' = invoked \cup {"selector"}
  /\ UNCHANGED <<entry, max_iterations, current_iteration, file, backup, initial_code,
                 current_code, sandbox_result, findings, error_data, executions,
                 fileops, baseline_result, patched_results>>
  /\ UNCHANGED <<box_vars, an_vars, lib_vars>>

\* STEP 5: apply_patch_to_file writes the backup, then the patched code; the
\* iteration is logged and the loop continues
Apply ==
  /\ pc = "apply"
  /\ backup' = file
  /\ file' = best_patch.patched_code
  /\ fileops' = fileops \o
        << FileOp("backup", "apply_patch", file, file),
           FileOp("write", "apply_patch", best_patch.patched_code, file) >>
  /\ iteration_logs' = Append(iteration_logs,
        Log(current_iteration,
            IF Logical THEN "retrying"
            ELSE IF best_patch.success THEN "fixed" ELSE "retrying",
            sandbox_result.returncode))
  /\ pc' = "loop"
  /\ ClearLocals
  /\ UNCHANGED <<entry, max_iterations, current_iteration, initial_code, current_code,
                 outcome, executions, invoked, baseline_result, patched_results>>
  /\ UNCHANGED <<box_vars, an_vars, lib_vars>>

\* apply_patch_to_file finds no file: applied stays False
ApplyFails ==
  /\ pc = "apply"
  /\ IF Logical THEN Succeed
     ELSE Fail("Failed to apply patch", current_code)
  /\ UNCHANGED <<entry, max_iterations, current_iteration, file, backup, initial_code,
                 current_code, sandbox_result, findings, error_data, patches, best_patch,
                 executions, invoked, fileops, baseline_result, patched_results>>
  /\ UNCHANGED <<box_vars, an_vars, lib_vars>>

\* ------------------------------------------------------ universal_repair.py
\* _test_and_select_patch: 100 for a candidate that runs, 10 otherwise; a later
\* candidate replaces the best only with a strictly greater score
RECURSIVE TestAndSelectFrom(_, _, _, _)
TestAndSelectFrom(cands, results, i, best) ==
  IF i > Len(cands) THEN best
  ELSE LET ok    == results[i].returncode = 0
           score == IF ok THEN 100 ELSE 10
       IN  TestAndSelectFrom(cands, results, i + 1,
             IF score > best.score
               THEN [id |-> cands[i].id, patched_code |-> cands[i].patched_code,
                     diff |-> cands[i].diff, score |-> score, success |-> ok]
               ELSE best)

TestAndSelectPatch(cands, results) ==
  LET best == TestAndSelectFrom(cands, results, 1, [NoPatch EXCEPT !.score = 0 - 999])
  IN  IF best.score > 0 THEN best ELSE NoPatch

\* "First check if code already works": one run before the loop
InitialCheck ==
  /\ pc = "ucheck"
  /\ \E r \in SandboxOutputs :
       /\ sandbox_result' = r
       /\ IF r.returncode = 0
            THEN /\ outcome' = [outcome EXCEPT !.returned = TRUE, !.success = TRUE,
                                   !.total_iterations = 0, !.final_status = "SUCCESS",
                                   !.reason = "Code already works - no repair needed"]
                 /\ pc' = "done"
            ELSE /\ pc' = "uloop"
                 /\ UNCHANGED outcome
  /\ executions' = executions + 1
  /\ invoked' = invoked \cup {"sandbox"}
  /\ UNCHANGED <<entry, max_iterations, current_iteration, file, backup, initial_code,
                 current_code, findings, error_data, patches, best_patch, iteration_logs,
                 fileops, baseline_result, patched_results>>
  /\ UNCHANGED <<box_vars, an_vars, lib_vars>>

\* for iteration in range(1, max_iterations + 1)
ForLoop ==
  /\ pc = "uloop"
  /\ IF current_iteration < max_iterations
       THEN /\ current_iteration' = current_iteration + 1
            /\ invoked' = {}
            /\ pc' = "urun"
       ELSE /\ pc' = "ufinish"
            /\ UNCHANGED <<current_iteration, invoked>>
  /\ UNCHANGED <<entry, max_iterations, file, backup, initial_code, current_code,
                 sandbox_result, findings, error_data, patches, best_patch,
                 iteration_logs, outcome, executions, fileops, baseline_result,
                 patched_results>>
  /\ UNCHANGED <<box_vars, an_vars, lib_vars>>

\* compile_and_run(current_code); on success the file is written, then the
\* backup of the original, and the loop is left
RunCurrent ==
  /\ pc = "urun"
  /\ \E r \in SandboxOutputs :
       /\ sandbox_result' = r
       /\ IF r.returncode = 0
            THEN /\ outcome' = [outcome EXCEPT !.success = TRUE,
                                   !.total_iterations = current_iteration,
                                   !.final_status = "SUCCESS",
                                   !.reason = "Code successfully repaired"]
                 /\ file' = current_code
                 /\ backup' = initial_code
                 /\ fileops' = fileops \o
                       << FileOp("write", "universal", current_code, file),
                          FileOp("backup", "universal", initial_code, current_code) >>
                 /\ pc' = "ufinish"
            ELSE /\ pc' = "ugenerate"
                 /\ UNCHANGED <<outcome, file, backup, fileops>>
  /\ executions' = executions + 1
  /\ invoked' = invoked \cup {"sandbox"}
  /\ UNCHANGED <<entry, max_iterations, current_iteration, initial_code, current_code,
                 findings, error_data, patches, best_patch, iteration_logs,
                 baseline_result, patched_results>>
  /\ UNCHANGED <<box_vars, an_vars, lib_vars>>

\* the language's patch generator; no patches leaves the loop
GeneratePatches ==
  /\ pc = "ugenerate"
  /\ error_data' = [error_type |-> "CompileOrRuntimeError"]
  /\ \E ps \in GeneratedLists :
       /\ patches' = ps
       /\ IF ps = << >>
            THEN /\ outcome' = [outcome EXCEPT !.reason = "No patches available for <language> errors"]
                 /\ pc' = "ufinish"
            ELSE /\ pc' = "uselect"
                 /\ UNCHANGED outcome
  /\ invoked' = invoked \cup {"generator"}
  /\ UNCHANGED <<entry, max_iterations, current_iteration, file, backup, initial_code,
                 current_code, sandbox_result, findings, best_patch, iteration_logs,
                 executions, fileops, baseline_result, patched_results>>
  /\ UNCHANGED <<box_vars, an_vars, lib_vars>>

\* _test_and_select_patch, then the winner becomes current_code
TestAndSelect ==
  /\ pc = "uselect"
  /\ \E rs \in [1..Len(patches) -> SandboxOutputs] :
       LET best == TestAndSelectPatch(patches, rs)
       IN  /\ IF best = NoPatch
                THEN /\ pc' = "ufinish"
                     /\ UNCHANGED <<current_code, iteration_logs, outcome, sandbox_result,
                                    findings, error_data, patches, best_patch>>
                ELSE /\ current_code' = best.patched_code
                     /\ ClearLocals
                     /\ iteration_logs' = Append(iteration_logs,
                           Log(current_iteration,
                               IF sandbox_result.returncode = 0 THEN "FIXED" ELSE "RETRYING",
                               sandbox_result.returncode))
                     /\ outcome' = [outcome EXCEPT !.total_iterations = current_iteration]
                     /\ pc' = "uloop"
  /\ invoked' = invoked \cup {"selector"}
  /\ UNCHANGED <<entry, max_iterations, current_iteration, file, backup, initial_code,
                 executions, fileops, baseline_result, patched_results>>
  /\ UNCHANGED <<box_vars, an_vars, lib_vars>>

\* after the loop: the reason is overwritten when the run did not succeed
Finish ==
  /\ pc = "ufinish"
  /\ outcome' = [outcome EXCEPT !.returned = TRUE,
                    !.reason = IF outcome.success THEN @
                               ELSE "Reached maximum iterations without fixing all errors"]
  /\ pc' = "done"
  /\ UNCHANGED <<entry, max_iterations, current_iteration, file, backup, initial_code,
                 current_code, sandbox_result, findings, error_data, patches, best_patch,
                 iteration_logs, executions, invoked, fileops, baseline_result,
                 patched_results>>
  /\ UNCHANGED <<box_vars, an_vars, lib_vars>>

Next ==
  \/ Loop \/ RunSandbox \/ Validators \/ ApplySemanticFix \/ LogicalDiagnosis
  \/ ReturnSuccess \/ Parse \/ Generate \/ Select \/ Apply \/ ApplyFails
  \/ InitialCheck \/ ForLoop \/ RunCurrent \/ GeneratePatches \/ TestAndSelect \/ Finish

Spec == Init /\ [][Next]_vars

\* ----------------------------------------- select_best_patch on its own
InitSel ==
  /\ entry = "select"
  /\ max_iterations = 0
  /\ pc = "sel_input"
  /\ current_iteration = 0
  /\ file = Source(0)
  /\ backup = None
  /\ initial_code = Source(0)
  /\ current_code = Source(0)
  /\ sandbox_result = NoResult
  /\ findings = NoFindings
  /\ error_data = NoDiagnosis
  /\ patches \in CandLists
  /\ best_patch = NoPatch
  /\ iteration_logs = << >>
  /\ outcome = Pending("select")
  /\ executions = 0
  /\ invoked = {}
  /\ fileops = << >>
  /\ baseline_result \in SandboxOutputs
  /\ patched_results \in [1..Len(patches) -> SandboxOutputs]
  /\ BoxIdle
  /\ AnalyzerIdle
  /\ LibIdle

SelectAlone ==
  /\ pc = "sel_input"
  /\ best_patch' = SelectBestPatch(patches, baseline_result, patched_results)
  /\ invoked' = invoked \cup {"selector"}
  /\ pc' = "sel_done"
  /\ UNCHANGED <<entry, max_iterations, current_iteration, file, backup, initial_code,
                 current_code, sandbox_result, findings, error_data, patches,
                 iteration_logs, outcome, executions, fileops, baseline_result,
                 patched_results>>
  /\ UNCHANGED <<box_vars, an_vars, lib_vars>>

NextSel == SelectAlone

SpecSel == InitSel /\ [][NextSel]_vars

\* ------------------------------ the two sandboxes, one invocation at a time
\* compile_and_run (core/multi_language_sandbox.py) and run_in_sandbox
\* (core/sandbox_runner.py).  An invocation is described by what happens to
\* each of its steps:
\*   probe  the '<tool> --version' availability check: "ok" or "missing"
\*   first  the syntax check or compile step: "ok", "fail" (non-zero exit or
\*          SyntaxError), "timeout" (TimeoutExpired), "spawn" (OSError)
\*   run    the run step: "ok", "fail", "timeout", "spawn", "memory"
\*          (MemoryError raised in the calling process)
\*   text   the failing step's stderr: "syntax" (a syntax diagnostic),
\*          "other", "empty"
\*   writes the program writes a file into its working directory
CompileAndRunLanguages == {"python", "javascript", "c", "cpp", "java", "go"}
RunInSandboxLanguages  == {"python", "javascript", "c", "cpp", "java"}

\* python's syntax check is compile() in the calling process; run_in_sandbox
\* has no first step for javascript
FirstOutcomes(api, language) ==
  IF language = "python" THEN {"ok", "fail"}
  ELSE IF api = "run_in_sandbox" /\ language = "javascript" THEN {"ok"}
  ELSE {"ok", "fail", "timeout", "spawn"}

RunOutcomes == {"ok", "fail", "timeout", "spawn", "memory"}

\* the invocations of one api; fields that play no part are fixed
BoxCalls(api) ==
  LET languages == IF api = "compile_and_run" THEN CompileAndRunLanguages
                   ELSE RunInSandboxLanguages
      probes    == IF api = "compile_and_run" THEN {"ok", "missing"} ELSE {"ok"}
  IN  {c \in [api : {api}, language : languages, probe : probes,
              first : {"ok", "fail", "timeout", "spawn", None},
              run : RunOutcomes \cup {None},
              text : {"syntax", "other", "empty", None}, writes : BOOLEAN] :
         /\ (c.probe = "missing") <=> (c.first = None)
         /\ c.first # None => c.first \in FirstOutcomes(api, c.language)
         /\ (c.first = "ok") <=> (c.run # None)
         /\ (c.text # None) <=> (c.first = "fail" \/ c.run = "fail")
         /\ c.first = "fail" => c.text # "empty"
         /\ c.writes => c.run \in {"ok", "fail", "timeout", "memory"}}

\* the program was started
ProgramRan(c) == c.run \in {"ok", "fail", "timeout", "memory"}

\* map_error_type: keyword search in the lower-cased stderr, per language
MapErrorType(text, language) ==
  IF text = "syntax"
    THEN (IF language = "java" THEN "CompileError" ELSE "SyntaxError")
    ELSE (IF language = "go" THEN "CompileError" ELSE "RuntimeError")

\* _execute_with_sandbox: the run step's result before any remapping
ExecuteWithSandbox(run, text) ==
  CASE run = "ok"      -> [success |-> TRUE,  error |-> FALSE, error_type |-> None]
    [] run = "fail"    -> [success |-> FALSE, error |-> text # "empty", error_type |-> "RuntimeError"]
    [] run = "timeout" -> [success |-> FALSE, error |-> TRUE,  error_type |-> "TimeoutError"]
    [] run = "memory"  -> [success |-> FALSE, error |-> TRUE,  error_type |-> "MemoryError"]
    [] run = "spawn"   -> [success |-> FALSE, error |-> TRUE,  error_type |-> "ExecutionError"]

\* _run_<language>: an exception of the first step escapes to compile_and_run
\* ("raised"); after the run step the error type is remapped unless it is
\* TimeoutError or MemoryError
RunLanguageSteps(c) ==
  IF c.first = "fail"
    THEN [success |-> FALSE, error_type |-> MapErrorType(c.text, c.language), raised |-> FALSE]
  ELSE IF c.first \in {"timeout", "spawn"}
    THEN [success |-> FALSE, error_type |-> None, raised |-> TRUE]
  ELSE LET r == ExecuteWithSandbox(c.run, IF c.text = None THEN "other" ELSE c.text)
       IN  [success |-> r.success,
            error_type |-> IF /\ ~r.success /\ r.error
                              /\ r.error_type \notin {"TimeoutError", "MemoryError"}
                             THEN MapErrorType(IF c.run = "fail" THEN c.text ELSE "other",
                                               c.language)
                             ELSE r.error_type,
            raised |-> FALSE]

\* compile_and_run's result: success and error_type
CompileAndRunResult(c) ==
  IF c.probe = "missing"
    THEN [success |-> FALSE, error_type |-> "ConfigurationError", returncode |-> 0 - 1]
  ELSE LET r == RunLanguageSteps(c)
       IN  IF r.raised
             THEN [success |-> FALSE, error_type |-> "SandboxError", returncode |-> 0 - 1]
             ELSE [success |-> r.success, error_type |-> r.error_type, returncode |-> 0 - 1]

\* run_in_sandbox's result: the return code (TimeoutExpired of any step
\* gives 124, any other exception 1)
RunInSandboxResult(c) ==
  LET rc == IF c.first = "fail" THEN 1
            ELSE IF c.first = "timeout" THEN 124
            ELSE IF c.first = "spawn" THEN 1
            ELSE IF c.run = "ok" THEN 0
            ELSE IF c.run = "timeout" THEN 124
            ELSE 1
  IN  [success |-> rc = 0, error_type |-> None, returncode |-> rc]

\* the directory the program runs in: "fresh" (created for the invocation and
\* removed after it) or "cwd" (the calling process's working directory)
WorkDir(c) ==
  IF c.api = "run_in_sandbox" THEN "fresh"
  ELSE IF c.language = "java" THEN "fresh"
  ELSE "cwd"

InitBox ==
  /\ entry = "sandbox"
  /\ max_iterations = 0
  /\ pc = "box"
  /\ current_iteration = 0
  /\ file = Source(0)
  /\ backup = None
  /\ initial_code = Source(0)
  /\ current_code = Source(0)
  /\ sandbox_result = NoResult
  /\ findings = NoFindings
  /\ error_data = NoDiagnosis
  /\ patches = << >>
  /\ best_patch = NoPatch
  /\ iteration_logs = << >>
  /\ outcome = Pending("sandbox")
  /\ executions = 0
  /\ invoked = {}
  /\ fileops = << >>
  /\ baseline_result = NoResult
  /\ patched_results = << >>
  /\ BoxIdle
  /\ AnalyzerIdle
  /\ LibIdle

\* one invocation: the result, what the program finds in its working
\* directory, and what it leaves behind
Invoke(c, result) ==
  /\ box_call' = c
  /\ box_result' = result
  /\ box_calls' = box_calls + 1
  /\ seen' = IF ProgramRan(c) /\ WorkDir(c) = "cwd" THEN cwd_files ELSE {}
  /\ cwd_files' = IF c.writes /\ WorkDir(c) = "cwd"
                    THEN cwd_files \cup {box_calls + 1} ELSE cwd_files
  /\ UNCHANGED <<ctl_vars, an_vars, lib_vars>>

CompileAndRun ==
  /\ pc = "box"
  /\ box_calls < MaxCalls
  /\ \E c \in BoxCalls("compile_and_run") : Invoke(c, CompileAndRunResult(c))

RunInSandbox ==
  /\ pc = "box"
  /\ box_calls < MaxCalls
  /\ \E c \in BoxCalls("run_in_sandbox") : Invoke(c, RunInSandboxResult(c))

NextBox == CompileAndRun \/ RunInSandbox

SpecBox == InitBox /\ [][NextBox]_vars

\* ------------------------------------ analyze_logic on one while loop
\* core/logical_analyzer.py, PythonASTAnalyzer._check_infinite_loop.  The
\* loop is given by its test ("true": the constant True, "compare": a
\* comparison), the names read in the test, the names assigned in the loop,
\* and whether it contains a break.  Names are kept in a set of str, whose
\* iteration order follows the string hashes of the running process.
LoopNames == {"i", "n", "k"}

HashOrders ==
  {o \in [1..Cardinality(LoopNames) -> LoopNames] :
     \A a, b \in DOMAIN o : a # b => o[a] # o[b]}

LoopShapes ==
  {l \in [test : {"true", "compare"}, in_condition : SUBSET LoopNames,
          modified : SUBSET LoopNames, has_break : BOOLEAN] :
     l.test = "true" => l.in_condition = {}}

\* the elements of a set of names in the order the process iterates them
SetIteration(names, order) ==
  LET In(x) == x \in names
  IN  SelectSeq(order, In)

\* the errors _check_infinite_loop appends: message and suggested_fix
CheckInfiniteLoop(shape, order) ==
  LET unmodified == shape.in_condition \ shape.modified
      always == IF shape.test = "true" /\ ~shape.has_break
                  THEN << [type |-> "infinite_loop",
                           message |-> <<"condition is always True and no break statement">>,
                           suggested_fix |-> <<"Add a break condition or modify the loop condition">>] >>
                  ELSE << >>
      never  == IF shape.test = "compare" /\ unmodified # {} /\ ~shape.has_break
                  THEN << [type |-> "infinite_loop",
                           message |-> <<"variables">> \o SetIteration(unmodified, order)
                                       \o <<"in condition never modified">>,
                           suggested_fix |-> <<"Modify", SetIteration(unmodified, order)[1],
                                               "inside the loop or add a break condition">>] >>
                  ELSE << >>
  IN  always \o never

InitAnalyze ==
  /\ entry = "analyze_logic"
  /\ max_iterations = 0
  /\ pc = "analyze"
  /\ current_iteration = 0
  /\ file = Source(0)
  /\ backup = None
  /\ initial_code = Source(0)
  /\ current_code = Source(0)
  /\ sandbox_result = NoResult
  /\ findings = NoFindings
  /\ error_data = NoDiagnosis
  /\ patches = << >>
  /\ best_patch = NoPatch
  /\ iteration_logs = << >>
  /\ outcome = Pending("analyze_logic")
  /\ executions = 0
  /\ invoked = {}
  /\ fileops = << >>
  /\ baseline_result = NoResult
  /\ patched_results = << >>
  /\ BoxIdle
  /\ loop_shape \in LoopShapes
  /\ hash_order \in HashOrders
  /\ logical_analysis_results = << >>
  /\ LibIdle

\* analyze_logic's report on the loop; autonomous_repair returns it unchanged
\* as the outcome's logical_analysis
AnalyzeLogic ==
  /\ pc = "analyze"
  /\ logical_analysis_results' = CheckInfiniteLoop(loop_shape, hash_order)
  /\ findings' = [findings EXCEPT
                     !.logical_errors = CheckInfiniteLoop(loop_shape, hash_order) # << >>]
  /\ pc' = "analyzed"
  /\ UNCHANGED <<entry, max_iterations, current_iteration, file, backup, initial_code,
                 current_code, sandbox_result, error_data, patches, best_patch,
                 iteration_logs, outcome, executions, invoked, fileops,
                 baseline_result, patched_results, box_vars, loop_shape, hash_order,
                 lib_vars>>

NextAnalyze == AnalyzeLogic

SpecAnalyze == InitAnalyze /\ [][NextAnalyze]_vars

\* ------------------------------------- core/dsl_parser.py, dsl/fixgoblin_dsl.py
\* Rule names a configuration file can allow or deny: the ids the generators
\* give their candidates, and a rule name of the example configuration.
RuleNames == PatchIds \cup {"range_fix"}

\* max_patches: 1, or the default 5
Configs == [allow : SUBSET RuleNames, deny : SUBSET RuleNames,
            optimize_efficiency : BOOLEAN, max_patches : {1, 5}]

IsRuleAllowedAllowFirst(rule, cfg) ==
  IF cfg.allow = {} THEN rule \notin cfg.deny
  ELSE rule \in cfg.allow

\* deny takes precedence; an empty allow set allows every rule not denied
IsRuleAllowed(rule, cfg) ==
  IF rule \in cfg.deny THEN FALSE
  ELSE IF cfg.allow = {} THEN TRUE
  ELSE rule \in cfg.allow

\* the configuration parse_dsl_config returned
InitDsl ==
  /\ entry = "dsl"
  /\ max_iterations = 0
  /\ pc = "dsl"
  /\ current_iteration = 0
  /\ file = Source(0)
  /\ backup = None
  /\ initial_code = Source(0)
  /\ current_code = Source(0)
  /\ sandbox_result = NoResult
  /\ findings = NoFindings
  /\ error_data = NoDiagnosis
  /\ patches = << >>
  /\ best_patch = NoPatch
  /\ iteration_logs = << >>
  /\ outcome = Pending("dsl")
  /\ executions = 0
  /\ invoked = {}
  /\ fileops = << >>
  /\ baseline_result = NoResult
  /\ patched_results = << >>
  /\ BoxIdle
  /\ AnalyzerIdle
  /\ config \in Configs
  /\ rule_name = None
  /\ rule_allowed = FALSE
  /\ evaluated = << >>
  /\ signals = NoSignals
  /\ error_info = NoErrorInfo
  /\ tree = NoTree
  /\ for_loop = NoFor
  /\ test_cases = << >>

\* is_rule_allowed(rule_name, config)
IsRuleAllowedCall ==
  /\ pc = "dsl"
  /\ \E rule \in RuleNames :
       /\ rule_name' = rule
       /\ rule_allowed' = IsRuleAllowed(rule, config)
  /\ pc' = "dsl_checked"
  /\ UNCHANGED <<entry, max_iterations, current_iteration, file, backup, initial_code,
                 current_code, sandbox_result, findings, error_data, patches, best_patch,
                 iteration_logs, outcome, executions, invoked, fileops,
                 baseline_result, patched_results>>
  /\ UNCHANGED <<box_vars, an_vars, config, evaluated, parse_vars, flow_vars>>

\* repair_with_dsl_config: of the configuration only optimize_efficiency is
\* handed to autonomous_repair, whose failure branch gives the generator's
\* whole list to select_best_patch, which scores every element of it
RepairWithDslConfig ==
  /\ pc = "dsl"
  /\ \E generated \in GeneratedLists, r \in {RunClean, RunTrace} :
       evaluated' = ScoreAll(generated, RunTrace, [i \in 1..Len(generated) |-> r])
  /\ pc' = "dsl_repaired"
  /\ UNCHANGED <<entry, max_iterations, current_iteration, file, backup, initial_code,
                 current_code, sandbox_result, findings, error_data, patches, best_patch,
                 iteration_logs, outcome, executions, invoked, fileops,
                 baseline_result, patched_results>>
  /\ UNCHANGED <<box_vars, an_vars, config, rule_name, rule_allowed, parse_vars, flow_vars>>

NextDsl == IsRuleAllowedCall \/ RepairWithDslConfig

SpecDsl == InitDsl /\ [][NextDsl]_vars

\* ------------------------------------- core/error_parser.py: line numbers
\* A traceback lists its frames outermost first ("most recent call last");
\* each frame is a line 'File "<filename>", line <lineno>, in <name>'.
MaxFrames == 3
MaxLine   == 2

\* the sandbox's copy of the user's file, a module of the standard library,
\* and a frame of the import machinery
UserFile    == "main.py"
LibraryFile == "/usr/lib/python3/json/decoder.py"
FrozenFile  == "<frozen importlib._bootstrap>"

Frames == [filename : {UserFile, LibraryFile, FrozenFile}, lineno : 1..MaxLine]

\* the failed runs given to parse_error: the program is started as main.py,
\* so the outermost frame is the user's
FailedRuns ==
  {sig \in [frames : SeqsUpTo(Frames, MaxFrames), error_type : {"NameError", "SyntaxError"}] :
     /\ sig.frames # << >>
     /\ sig.frames[1].filename = UserFile}

\* "main." in filename or filename.endswith(('.py', '.c', '.cpp', '.java', '.js'))
AcceptedFilename(filename) ==
  \/ filename = UserFile
  \/ filename \in {UserFile, LibraryFile}

\* _parse_syntax_error: re.search finds the first 'File "...", line N' of stderr
ParseSyntaxErrorLine(frames) ==
  IF frames = << >> THEN None ELSE frames[1].lineno

\* _parse_runtime_error: the lines are searched in reverse; the first frame
\* whose filename is accepted gives the line number
ParseRuntimeErrorLine(frames) ==
  LET accepted == {i \in 1..Len(frames) : AcceptedFilename(frames[i].filename)}
  IN  IF accepted = {} THEN None
      ELSE frames[CHOOSE i \in accepted : \A j \in accepted : j <= i].lineno

\* parse_error: the syntax-error parser first, else the runtime parser
ParseErrorInfo(sig) ==
  [error_type  |-> sig.error_type,
   line_number |-> IF sig.error_type = "SyntaxError"
                     THEN ParseSyntaxErrorLine(sig.frames)
                     ELSE ParseRuntimeErrorLine(sig.frames)]

InitParse ==
  /\ entry = "parse_error"
  /\ max_iterations = 0
  /\ pc = "parse"
  /\ current_iteration = 0
  /\ file = Source(0)
  /\ backup = None
  /\ initial_code = Source(0)
  /\ current_code = Source(0)
  /\ sandbox_result = NoResult
  /\ findings = NoFindings
  /\ error_data = NoDiagnosis
  /\ patches = << >>
  /\ best_patch = NoPatch
  /\ iteration_logs = << >>
  /\ outcome = Pending("parse_error")
  /\ executions = 0
  /\ invoked = {}
  /\ fileops = << >>
  /\ baseline_result = NoResult
  /\ patched_results = << >>
  /\ BoxIdle
  /\ AnalyzerIdle
  /\ config = NoConfig
  /\ rule_name = None
  /\ rule_allowed = FALSE
  /\ evaluated = << >>
  /\ signals \in FailedRuns
  /\ error_info = NoErrorInfo
  /\ tree = NoTree
  /\ for_loop = NoFor
  /\ test_cases = << >>

\* parse_error(signals, user_code)
ParseErrorCall ==
  /\ pc = "parse"
  /\ error_info' = ParseErrorInfo(signals)
  /\ pc' = "parsed"
  /\ UNCHANGED <<entry, max_iterations, current_iteration, file, backup, initial_code,
                 current_code, sandbox_result, findings, error_data, patches, best_patch,
                 iteration_logs, outcome, executions, invoked, fileops,
                 baseline_result, patched_results>>
  /\ UNCHANGED <<box_vars, an_vars, dsl_vars, signals, flow_vars>>

NextParse == ParseErrorCall

SpecParse == InitParse /\ [][NextParse]_vars

\* ------------------------- core/logical_analyzer.py: unreachable code
\* The syntax tree given to analyze_logic, one statement per line.  top "def":
\* the module is one function definition (line 1) whose body is `body`;
\* top "module": `body` is the module's own statement sequence.  A statement
\* of `body` is simple ("expr", "return") or compound ("if" with body and
\* orelse, "while" with body); the blocks of a compound statement hold simple
\* statements.
MaxStmts  == 2
MaxNested == 2

SimpleKinds == {"expr", "return"}

Blocks == SeqsUpTo(SimpleKinds, MaxNested) \ {<< >>}

Statements ==
  [kind : SimpleKinds, body : {<< >>}, orelse : {<< >>}]
    \cup [kind : {"if"}, body : Blocks, orelse : Blocks \cup {<< >>}]
    \cup [kind : {"while"}, body : Blocks, orelse : {<< >>}]

SimpleStatements == [kind : SimpleKinds, body : {<< >>}, orelse : {<< >>}]

\* sequences of simple statements with a statement put at position j
WithStatementAt(simple, stmt, j) ==
  [i \in 1..Len(simple) |-> IF i = j THEN stmt ELSE simple[i]]

\* the trees analysed: at most one statement of the body is compound
Trees ==
  LET simple == SeqsUpTo(SimpleStatements, MaxStmts) \ {<< >>}
  IN  [top : {"def", "module"},
       body : simple \cup {WithStatementAt(b, stmt, j) :
                             b \in simple, stmt \in Statements, j \in 1..MaxStmts}]

\* lines a statement spans: its own, its body's, and 'else:' with its block
Size(stmt) ==
  1 + Len(stmt.body) + (IF stmt.orelse = << >> THEN 0 ELSE 1 + Len(stmt.orelse))

RECURSIVE SizeBefore(_, _)
SizeBefore(body, j) ==
  IF j <= 1 THEN 0 ELSE SizeBefore(body, j - 1) + Size(body[j - 1])

\* lineno of statement j of the tree's body, and of the statements of its blocks
LineOf(t, j) == (IF t.top = "def" THEN 1 ELSE 0) + 1 + SizeBefore(t.body, j)

BodyLines(t, j) == [i \in 1..Len(t.body[j].body) |-> LineOf(t, j) + i]

ElseLines(t, j) ==
  [i \in 1..Len(t.body[j].orelse) |-> LineOf(t, j) + Len(t.body[j].body) + 1 + i]

OuterLines(t) == [j \in 1..Len(t.body) |-> LineOf(t, j)]

OuterKinds(t) == [j \in 1..Len(t.body) |-> t.body[j].kind]

UnreachableFinding(line, message) ==
  [type |-> "unreachable_code", line |-> line, message |-> message]

UnreachableAfterAtTerminator(kinds, lines) ==
  LET hit(i) == kinds[i] \in {"return", "break", "continue"}
      sel    == SelectSeq([i \in 1..(Len(kinds) - 1) |-> i], hit)
  IN  [k \in 1..Len(sel) |->
         UnreachableFinding(lines[sel[k]],
                            "Unreachable code after " \o kinds[sel[k]] \o " statement")]

\* one statement list scanned by _analyze_unreachable_code: a finding at the
\* statement after each return, break or continue that is not the last
UnreachableAfter(kinds, lines) ==
  LET hit(i) == kinds[i] \in {"return", "break", "continue"}
      sel    == SelectSeq([i \in 1..(Len(kinds) - 1) |-> i], hit)
  IN  [k \in 1..Len(sel) |->
         UnreachableFinding(lines[sel[k] + 1],
                            "Unreachable code after " \o kinds[sel[k]] \o " statement")]

\* the bodies of the If and While statements among the first j statements;
\* orelse blocks are not scanned
RECURSIVE NestedUnreachable(_, _)
NestedUnreachable(t, j) ==
  IF j = 0 THEN << >>
  ELSE NestedUnreachable(t, j - 1) \o
       (IF t.body[j].kind \in {"if", "while"}
          THEN UnreachableAfter(t.body[j].body, BodyLines(t, j))
          ELSE << >>)

\* _analyze_unreachable_code: ast.walk visits the FunctionDef before the
\* statements nested in it; the module's own statement list is not scanned
AnalyzeUnreachableCode(t) ==
  (IF t.top = "def" THEN UnreachableAfter(OuterKinds(t), OuterLines(t)) ELSE << >>)
    \o NestedUnreachable(t, Len(t.body))

\* --- ControlFlowGraphBuilder
EntryNode == [node_type |-> "entry", line |-> 0]
ExitNode  == [node_type |-> "exit", line |-> 0]
StatementNode(line) == [node_type |-> "statement", line |-> line]
MergeNode(line)     == [node_type |-> "merge", line |-> line]
LoopExitNode(line)  == [node_type |-> "loop_exit", line |-> line]

\* _process_statement over a block of simple statements: each node is made a
\* successor of its predecessor, a return also gets the exit node
BlockEdges(predecessor, kinds, lines) ==
  {<<IF i = 1 THEN predecessor ELSE StatementNode(lines[i - 1]), StatementNode(lines[i])>> :
      i \in 1..Len(kinds)}
    \cup {<<StatementNode(lines[i]), ExitNode>> : i \in {k \in 1..Len(kinds) : kinds[k] = "return"}}

BlockLast(predecessor, lines) ==
  IF lines = << >> THEN predecessor ELSE StatementNode(lines[Len(lines)])

\* the node _process_statement returns for statement j
ProcessedLast(t, j) ==
  LET kind == t.body[j].kind
  IN  IF kind = "if" THEN MergeNode(LineOf(t, j))
      ELSE IF kind = "while" THEN LoopExitNode(LineOf(t, j))
      ELSE StatementNode(LineOf(t, j))

\* _process_statement(stmt, predecessor) for statement j of a module body
ProcessStatement(t, j) ==
  LET stmt        == t.body[j]
      node        == StatementNode(LineOf(t, j))
      predecessor == IF j = 1 THEN EntryNode ELSE ProcessedLast(t, j - 1)
  IN  {<<predecessor, node>>} \cup
      (IF stmt.kind = "if"
         THEN BlockEdges(node, stmt.body, BodyLines(t, j))
                \cup {<<BlockLast(node, BodyLines(t, j)), MergeNode(LineOf(t, j))>>}
                \cup BlockEdges(node, stmt.orelse, ElseLines(t, j))
                \cup {<<BlockLast(node, ElseLines(t, j)), MergeNode(LineOf(t, j))>>}
       ELSE IF stmt.kind = "while"
         THEN BlockEdges(node, stmt.body, BodyLines(t, j))
                \cup {<<BlockLast(node, BodyLines(t, j)), node>>,
                      <<node, LoopExitNode(LineOf(t, j))>>}
       ELSE IF stmt.kind = "return" THEN {<<node, ExitNode>>}
       ELSE {})

\* build(): the statements of the module body in order, then the last node
\* to the exit node.  A FunctionDef is one statement node; its body gets no
\* nodes.
CfgEdges(t) ==
  IF t.top = "def"
    THEN {<<EntryNode, StatementNode(1)>>, <<StatementNode(1), ExitNode>>}
    ELSE UNION {ProcessStatement(t, j) : j \in 1..Len(t.body)}
           \cup {<<ProcessedLast(t, Len(t.body)), ExitNode>>}

CfgNodes(t) ==
  {EntryNode, ExitNode} \cup {e[1] : e \in CfgEdges(t)} \cup {e[2] : e \in CfgEdges(t)}

\* _mark_reachable: everything reached from the entry node along successors
RECURSIVE MarkReachable(_, _)
MarkReachable(visited, edges) ==
  LET more == {e[2] : e \in {d \in edges : d[1] \in visited}} \ visited
  IN  IF more = {} THEN visited ELSE MarkReachable(visited \cup more, edges)

Reachable(t) == MarkReachable({EntryNode}, CfgEdges(t))

\* find_unreachable, in node order
FindUnreachable(t) ==
  {n \in CfgNodes(t) : n \notin Reachable(t) /\ n.node_type \notin {"entry", "exit"}}

RECURSIVE ByLine(_)
ByLine(nodes) ==
  IF nodes = {} THEN << >>
  ELSE LET first == CHOOSE n \in nodes : \A m \in nodes : n.line <= m.line
       IN  <<first>> \o ByLine(nodes \ {first})

\* analyze_logic's unreachable-code findings: the analyzer's, then one for
\* every unreachable node that carries a statement
AnalyzeLogicUnreachable(t) ==
  LET unreachable == ByLine({n \in FindUnreachable(t) : n.node_type = "statement"})
  IN  AnalyzeUnreachableCode(t) \o
      [k \in 1..Len(unreachable) |->
         UnreachableFinding(unreachable[k].line,
                            "Unreachable code detected via control flow analysis")]

InitFlow ==
  /\ entry = "analyze_logic"
  /\ max_iterations = 0
  /\ pc = "flow"
  /\ current_iteration = 0
  /\ file = Source(0)
  /\ backup = None
  /\ initial_code = Source(0)
  /\ current_code = Source(0)
  /\ sandbox_result = NoResult
  /\ findings = NoFindings
  /\ error_data = NoDiagnosis
  /\ patches = << >>
  /\ best_patch = NoPatch
  /\ iteration_logs = << >>
  /\ outcome = Pending("analyze_logic")
  /\ executions = 0
  /\ invoked = {}
  /\ fileops = << >>
  /\ baseline_result = NoResult
  /\ patched_results = << >>
  /\ BoxIdle
  /\ AnalyzerIdle
  /\ config = NoConfig
  /\ rule_name = None
  /\ rule_allowed = FALSE
  /\ evaluated = << >>
  /\ signals = NoSignals
  /\ error_info = NoErrorInfo
  /\ tree \in Trees
  /\ for_loop = NoFor
  /\ test_cases = << >>

\* analyze_logic(code, "python"): the unreachable-code findings of the report
AnalyzeControlFlow ==
  /\ pc = "flow"
  /\ logical_analysis_results' = AnalyzeLogicUnreachable(tree)
  /\ pc' = "flow_done"
  /\ UNCHANGED <<entry, max_iterations, current_iteration, file, backup, initial_code,
                 current_code, sandbox_result, findings, error_data, patches, best_patch,
                 iteration_logs, outcome, executions, invoked, fileops,
                 baseline_result, patched_results>>
  /\ UNCHANGED <<box_vars, loop_shape, hash_order, lib_vars>>

NextFlow == AnalyzeControlFlow

SpecFlow == InitFlow /\ [][NextFlow]_vars

\* ------------------------------ core/logical_analyzer.py: off-by-one
\* A for loop over range(...): the number of arguments of the range call,
\* the constant that is its first argument, the number of subscripts
\* NAME[loop variable] in the loop, and the loop's line.
MaxSubscripts == 2
MaxTests      == 2

ForLoops == [range_args : 1..3, start : 0..1, subscripts : 0..MaxSubscripts, lineno : 1..2]

\* test results as TestResult.to_dict gives them; a test passed exactly when
\* the outputs agree
TestResults ==
  {t \in [passed : BOOLEAN, expected_output : {6}, actual_output : 4..6] :
     t.passed <=> (t.expected_output = t.actual_output)}

OffByOneFinding(line) == [type |-> "off_by_one", line |-> line]

\* _check_range_off_by_one: with two or more range arguments and a first
\* argument 1, one finding at the loop's line for every subscript by the
\* loop variable found in the loop
CheckRangeOffByOne(loop) ==
  IF loop.range_args >= 2 /\ loop.start = 1
    THEN [k \in 1..loop.subscripts |-> OffByOneFinding(loop.lineno)]
    ELSE << >>

\* _analyze_with_test_cases: a failed test whose numeric outputs differ by
\* one gives a finding at line 0
RECURSIVE AnalyzeWithTestCases(_)
AnalyzeWithTestCases(tests) ==
  IF tests = << >> THEN << >>
  ELSE LET n    == Len(tests)
           test == tests[n]
           diff == IF test.expected_output >= test.actual_output
                     THEN test.expected_output - test.actual_output
                     ELSE test.actual_output - test.expected_output
       IN  AnalyzeWithTestCases(SubSeq(tests, 1, n - 1)) \o
           (IF ~test.passed /\ diff = 1 THEN << OffByOneFinding(0) >> ELSE << >>)

\* analyze_logic's off-by-one findings: the analyzer's, then the test cases'
AnalyzeLogicOffByOne(loop, tests) ==
  CheckRangeOffByOne(loop) \o AnalyzeWithTestCases(tests)

InitOffByOne ==
  /\ entry = "analyze_logic"
  /\ max_iterations = 0
  /\ pc = "range"
  /\ current_iteration = 0
  /\ file = Source(0)
  /\ backup = None
  /\ initial_code = Source(0)
  /\ current_code = Source(0)
  /\ sandbox_result = NoResult
  /\ findings = NoFindings
  /\ error_data = NoDiagnosis
  /\ patches = << >>
  /\ best_patch = NoPatch
  /\ iteration_logs = << >>
  /\ outcome = Pending("analyze_logic")
  /\ executions = 0
  /\ invoked = {}
  /\ fileops = << >>
  /\ baseline_result = NoResult
  /\ patched_results = << >>
  /\ BoxIdle
  /\ AnalyzerIdle
  /\ config = NoConfig
  /\ rule_name = None
  /\ rule_allowed = FALSE
  /\ evaluated = << >>
  /\ signals = NoSignals
  /\ error_info = NoErrorInfo
  /\ tree = NoTree
  /\ for_loop \in ForLoops
  /\ test_cases \in SeqsUpTo(TestResults, MaxTests)

\* analyze_logic(code, "python", test_cases): the off-by-one findings
AnalyzeOffByOne ==
  /\ pc = "range"
  /\ logical_analysis_results' = AnalyzeLogicOffByOne(for_loop, test_cases)
  /\ pc' = "range_done"
  /\ UNCHANGED <<entry, max_iterations, current_iteration, file, backup, initial_code,
                 current_code, sandbox_result, findings, error_data, patches, best_patch,
                 iteration_logs, outcome, executions, invoked, fileops,
                 baseline_result, patched_results>>
  /\ UNCHANGED <<box_vars, loop_shape, hash_order, lib_vars>>

NextOffByOne == AnalyzeOffByOne

SpecOffByOne == InitOffByOne /\ [][NextOffByOne]_vars

\* ================================================================ claims

\* C1: in autonomous_repair the iterations started, the runs of the current
\* source and the reported total_iterations never exceed max_iterations, and
\* a run that ends neither succeeded nor failed reports success = false with
\* final_status max_iterations_reached.
C1_IterationBound ==
  entry = "autonomous" =>
    /\ current_iteration <= max_iterations
    /\ executions <= max_iterations
    /\ Len(iteration_logs) <= max_iterations
    /\ pc = "done" =>
          /\ outcome.total_iterations <= max_iterations
          /\ outcome.final_status \notin {"success", "failed"} =>
                /\ outcome.final_status = "max_iterations_reached"
                /\ ~outcome.success
                /\ outcome.total_iterations = max_iterations

C1_Witness ==
  /\ entry = "autonomous"
  /\ pc = "done"
  /\ max_iterations >= 1
  /\ executions = max_iterations
  /\ outcome.final_status = "max_iterations_reached"

\* C2: with max_iterations = 0 a repair entry point runs nothing in a sandbox,
\* writes neither the file nor a backup, and returns a non-success outcome
\* with zero iterations.
C2_ZeroBudgetRunsNothing ==
  max_iterations = 0 =>
    /\ executions = 0
    /\ invoked = {}
    /\ file = initial_code
    /\ backup = None
    /\ pc = "done" => (~outcome.success /\ outcome.total_iterations = 0)

\* C3: when the first run fails and the selected candidate exits 0 (the
\* iteration is logged 'fixed' with a non-zero returncode), the repair ends
\* with success after exactly one iteration and one record.
C3_FixedInOneIteration ==
  (/\ pc = "done"
   /\ max_iterations >= 1
   /\ Len(iteration_logs) >= 1
   /\ iteration_logs[1].status = "fixed"
   /\ iteration_logs[1].returncode # 0)
  => (/\ outcome.success
      /\ outcome.total_iterations = 1
      /\ Len(iteration_logs) = 1)

\* C4: a source that exits 0 with no validator finding in the first iteration
\* of autonomous_repair gives success after exactly one iteration, final_code
\* equal to the original source, the file unchanged and no backup written.
C4_CleanSourceSucceedsAtOnce ==
  (/\ entry = "autonomous"
   /\ pc = "done"
   /\ current_iteration = 1
   /\ sandbox_result.returncode = 0
   /\ findings = NoFindings)
  => (/\ outcome.success
      /\ outcome.final_status = "success"
      /\ outcome.total_iterations = 1
      /\ Len(iteration_logs) = 1
      /\ iteration_logs[1].status = "fixed"
      /\ outcome.final_code = initial_code
      /\ file = initial_code
      /\ backup = None
      /\ fileops = << >>)

C4_Witness ==
  /\ entry = "autonomous"
  /\ pc = "done"
  /\ current_iteration = 1
  /\ sandbox_result = RunClean
  /\ findings = NoFindings
  /\ outcome.success

\* C5: when some candidate exits 0 and some candidate exits non-zero,
\* select_best_patch returns a candidate that exits 0.
C5_PassingOutranksFailing ==
  (/\ pc = "sel_done"
   /\ \E i \in 1..Len(patches) : patched_results[i].returncode = 0
   /\ \E j \in 1..Len(patches) : patched_results[j].returncode # 0)
  => best_patch.success

ScoreOf(i) == EvaluatePatch(patches[i], baseline_result, patched_results[i]).total_score

C7_NonPositiveSelectionFails ==
  [][(pc = "apply" /\ best_patch.score <= 0)
       => (/\ pc' = "done"
           /\ outcome'.final_status = "failed"
           /\ file' = file)]_vars

\* C8: the sources one autonomous_repair run commits to the file (winner
\* commits and semantic-fix commits) in different iterations are pairwise
\* different.
C8_NoSourceCommittedTwice ==
  entry = "autonomous" =>
    \A i, j \in 1..Len(fileops) :
      (/\ i < j
       /\ fileops[i].op = "write"
       /\ fileops[j].op = "write"
       /\ fileops[i].iteration # fileops[j].iteration)
      => fileops[i].content # fileops[j].content

\* C9: every write of new content to the target file comes right after a
\* backup-write, in the same iteration, of the content the file had.
C9_BackupBeforeEveryWrite ==
  \A i \in 1..Len(fileops) :
    (fileops[i].op = "write" /\ fileops[i].content # fileops[i].target)
    => (/\ i > 1
        /\ fileops[i - 1].op = "backup"
        /\ fileops[i - 1].iteration = fileops[i].iteration
        /\ fileops[i - 1].content = fileops[i].target)

\* C10: a non-zero exit for which the extractor gives no error type ends the
\* run as failed in that step: one 'failed' record is appended, the file and
\* the backup are untouched, generator and selector are not called.
C10_UndiagnosedFailureIsTerminal ==
  [][(/\ pc = "parse"
      /\ sandbox_result.returncode # 0
      /\ ParseError(sandbox_result).error_type = None)
       => (/\ pc' = "done"
           /\ ~outcome'.success
           /\ outcome'.final_status = "failed"
           /\ outcome'.reason = "Could not parse error"
           /\ iteration_logs' = Append(iteration_logs,
                 Log(current_iteration, "failed", sandbox_result.returncode))
           /\ outcome'.total_iterations = Len(iteration_logs')
           /\ file' = file /\ backup' = backup /\ fileops' = fileops
           /\ "generator" \notin invoked' /\ "selector" \notin invoked')]_vars

C10_Witness ==
  /\ entry = "autonomous"
  /\ pc = "done"
  /\ sandbox_result = RunSilent
  /\ outcome.reason = "Could not parse error"
  /\ iteration_logs[Len(iteration_logs)].status = "failed"

\* C11: in autonomous_repair an empty candidate list from the generator ends
\* the run as failed in that step, after a non-zero exit and after a logical
\* finding on an exit-0 run alike; success is never reported for it.
C11_EmptyGenerationFails ==
  [][(entry = "autonomous" /\ pc = "generate" /\ patches' = << >>)
       => (/\ pc' = "done"
           /\ ~outcome'.success
           /\ outcome'.final_status = "failed")]_vars

\* C12: autonomous_repair returns success only from an iteration whose
\* exit-0 run had no logical error reported by analyze_logic.
C12_AnalyzerFindingBlocksSuccess ==
  (entry = "autonomous" /\ pc = "done" /\ outcome.success)
    => ~findings.logical_errors

\* C13: in one call of select_best_patch two candidates with the same sandbox
\* result and the same number of changed lines (the baseline is shared, so
\* the error-type transition is the same too) get the same total score,
\* whatever their ids and positions.
C13_ScoreDependsOnlyOnEvaluation ==
  pc = "sel_done" =>
    \A i, j \in 1..Len(patches) :
      (/\ patched_results[i] = patched_results[j]
       /\ CountDiffLines(patches[i].diff) = CountDiffLines(patches[j].diff))
      => ScoreOf(i) = ScoreOf(j)

RecognizedShape(stderr) ==
  /\ stderr # << >>
  /\ \/ \E i \in 1..Len(stderr) : stderr[i] = "SyntaxError"
     \/ stderr[Len(stderr)] \in TypedLines

\* C20: parse_error gives error_type null for the stderr of a failed run that
\* has neither shape.
C20_UnrecognizedStderrGivesNoKind ==
  [][(/\ pc = "parse"
      /\ sandbox_result.returncode # 0
      /\ ~RecognizedShape(sandbox_result.stderr))
       => error_data'.error_type = None]_vars

\* a step of the last invocation ran into the wall-clock timeout
StepTimedOut ==
  box_call.first = "timeout" \/ (box_call.first = "ok" /\ box_call.run = "timeout")

\* C14: a sandbox invocation in which the syntax check, the compile step or
\* the run step timed out returns the timeout tag (error_type 'TimeoutError'
\* from compile_and_run, returncode 124 from run_in_sandbox), and no other
\* invocation returns that tag.
C14_TimeoutIsTaggedTimeout ==
  box_call # NoCall =>
    /\ box_call.api = "compile_and_run" =>
          (StepTimedOut <=> box_result.error_type = "TimeoutError")
    /\ box_call.api = "run_in_sandbox" =>
          (StepTimedOut <=> box_result.returncode = 124)

\* C19: no program run by a sandbox invocation finds, in its working
\* directory, a file written there by an earlier invocation.
C19_FreshWorkingDirectory ==
  seen = {}

\* C18: the report that autonomous_repair returns as logical_analysis is the
\* same in every process: it is the report any other iteration order of the
\* set of names would give for the same loop.
C18_ReportIndependentOfHashOrder ==
  pc = "analyzed" =>
    \A o \in HashOrders : CheckInfiniteLoop(loop_shape, o) = logical_analysis_results

\* the run stopped in an iteration whose generator call returned no candidate
StoppedForNoCandidates ==
  /\ pc = "done"
  /\ "generator" \in invoked
  /\ "selector" \notin invoked
  /\ patches = << >>

\* C17: a run of autonomous_repair or universal_repair that stopped because
\* the generator returned no candidate is not reported with the
\* budget-exhaustion status or reason.
C17_ReasonNamesTheCause ==
  StoppedForNoCandidates =>
    /\ outcome.final_status # "max_iterations_reached"
    /\ outcome.reason # "Reached maximum iterations without fixing all errors"

\* C28: during autonomous_repair the target file changes only at the commit
\* step, and only to the patched code of the candidate select_best_patch
\* returned in that iteration; no unscored source is ever written.
C28_FileChangesOnlyAtCommit ==
  [][(entry = "autonomous" /\ file' # file) =>
       /\ pc = "apply"
       /\ best_patch # NoPatch
       /\ file' = best_patch.patched_code]_vars

\* C29: the iteration history of autonomous_repair only grows by appending,
\* and at every return total_iterations = len(iterations) = iterations
\* started, record k carries index k, a 'failed' record is the last one, and
\* success holds exactly when final_status is 'success'.
C29_HistoryMatchesIterations ==
  /\ [][entry = "autonomous" =>
          \/ iteration_logs' = iteration_logs
          \/ /\ Len(iteration_logs') = Len(iteration_logs) + 1
             /\ SubSeq(iteration_logs', 1, Len(iteration_logs)) = iteration_logs]_vars
  /\ []((entry = "autonomous" /\ outcome.returned) =>
          /\ outcome.total_iterations = Len(iteration_logs)
          /\ Len(iteration_logs) = current_iteration
          /\ \A k \in 1..Len(iteration_logs) :
               /\ iteration_logs[k].iteration = k
               /\ iteration_logs[k].status = "failed" => k = Len(iteration_logs)
          /\ (outcome.success <=> outcome.final_status = "success"))

C29_Witness ==
  /\ entry = "autonomous"
  /\ outcome.returned
  /\ Len(iteration_logs) = 2
  /\ iteration_logs[1].status = "retrying"
  /\ iteration_logs[2].status = "failed"

\* C30: after an autonomous_repair run that committed at least one patch,
\* <target>.backup holds the source as it was before the run started.
C30_BackupHoldsOriginal ==
  (/\ entry = "autonomous"
   /\ pc = "done"
   /\ \E i \in 1..Len(fileops) :
        fileops[i].op = "write" /\ fileops[i].by = "apply_patch")
    => backup = initial_code

\* C27: the error-count part of a candidate's score is +20 per counted error
\* line fewer than the baseline and -50 per line more, the per-line penalty
\* being -100 when the error type changed to UnboundLocalError or
\* SyntaxError; a candidate whose count does not increase has no new-error
\* penalty.
C27_ErrorCountComponent ==
  pc = "sel_done" =>
    \A i \in 1..Len(patches) :
      LET info      == EvaluatePatch(patches[i], baseline_result, patched_results[i])
          base      == CountErrorLines(baseline_result.stderr)
          patched   == CountErrorLines(patched_results[i].stderr)
          base_type == ExtractErrorType(baseline_result.stderr)
          new_type  == ExtractErrorType(patched_results[i].stderr)
          cascading == /\ base_type # None
                       /\ new_type \in {"UnboundLocalError", "SyntaxError"}
                       /\ new_type # base_type
      IN  /\ info.error_reduction_bonus =
                (IF patched < base THEN (base - patched) * 20 ELSE 0)
          /\ info.new_errors_penalty =
                (IF patched > base
                   THEN 0 - (patched - base) * (IF cascading THEN 100 ELSE 50)
                   ELSE 0)

\* C24: when a configuration is supplied, every candidate evaluated in the
\* run has an id the allow/deny filter admits, and at most max_patches
\* candidates are evaluated.
C24_ConfigBoundsEvaluation ==
  pc = "dsl_repaired" =>
    /\ \A i \in 1..Len(evaluated) : IsRuleAllowed(evaluated[i].id, config)
    /\ Len(evaluated) <= config.max_patches

\* C25: is_rule_allowed(rule, config) is true exactly when the rule is not in
\* the deny set and the allow set is empty or contains the rule.
C25_DenyPrecedesAllow ==
  pc = "dsl_checked" =>
    (rule_allowed <=>
       (rule_name \notin config.deny
        /\ (config.allow = {} \/ rule_name \in config.allow)))

C25_Witness ==
  /\ pc = "dsl_checked"
  /\ rule_name \in config.deny
  /\ rule_name \in config.allow
  /\ ~rule_allowed

\* C21: for a stack trace that mixes frames of the user's file and of
\* library files, parse_error reports the line of the innermost frame of the
\* user's file, never the line of a library frame.
C21_InnermostUserFrame ==
  pc = "parsed" =>
    LET user == {i \in 1..Len(signals.frames) : signals.frames[i].filename = UserFile}
    IN  error_info.line_number =
          signals.frames[CHOOSE i \in user : \A j \in user : j <= i].lineno

AfterReturnLines(t) ==
  {LineOf(t, j + 1) : j \in {i \in 1..(Len(t.body) - 1) : t.body[i].kind = "return"}}
    \cup UNION {
       {BodyLines(t, j)[i + 1] :
          i \in {k \in 1..(Len(t.body[j].body) - 1) : t.body[j].body[k] = "return"}}
       \cup {ElseLines(t, j)[i + 1] :
          i \in {k \in 1..(Len(t.body[j].orelse) - 1) : t.body[j].orelse[k] = "return"}} :
       j \in 1..Len(t.body)}

\* C26: in the control-flow graph a statement that follows a return in the
\* same statement sequence is not reachable from the entry node, and every
\* such statement is reported by analyze_logic as UnreachableCode.
C26_AfterReturnUnreachedAndReported ==
  pc = "flow_done" =>
    \A l \in AfterReturnLines(tree) :
      /\ StatementNode(l) \notin Reachable(tree)
      /\ \E k \in 1..Len(logical_analysis_results) :
           /\ logical_analysis_results[k].type = "unreachable_code"
           /\ logical_analysis_results[k].line = l

\* C23: for a function that returns total and holds a counted loop over
\* [1, n) whose body is 'total += arr[i]', analyze_logic reports exactly one
\* OffByOne finding, at the loop's line.
C23_OneOffByOneAtLoop ==
  (/\ pc = "range_done"
   /\ for_loop.range_args = 2
   /\ for_loop.start = 1
   /\ for_loop.subscripts = 1)
    => /\ Len(logical_analysis_results) = 1
       /\ logical_analysis_results[1] = OffByOneFinding(for_loop.lineno)

====
